---------------------------- MODULE Spec2Model ----------------------------
(***************************************************************************)
(* A model of the PDF forgery analyzer, src/src/services/DocumentAnalyzer.js.*)
(*                                                                         *)
(* Numbers.  JavaScript numbers are modelled by exact integers in fixed    *)
(* point: every length, coordinate and font size is held in tenths of a    *)
(* unit (12.5 is 125), a squared length in hundredths, a severity score in *)
(* hundredths and a confidence in thousandths.  A square root is held by   *)
(* its radicand (the distance d is held as d*d), a mean and a variance as  *)
(* an exact fraction [num, den].  Rounding of IEEE doubles is not modelled.*)
(*                                                                         *)
(* JavaScript values.  The entries of the `inconsistencies` object are     *)
(* either arrays or plain objects; the code tells them apart with          *)
(* Array.isArray and by reading the property `issues`.  An array is        *)
(* modelled as [kind |-> "array", items |-> <<...>>], the wrapped object   *)
(* of analyzePDF as [kind |-> "object", issues |-> <<...>>,                *)
(* detectedFonts |-> <<...>>].                                             *)
(***************************************************************************)
EXTENDS Integers, Sequences, FiniteSets, TLC

VARIABLES
    pc,               \* position of the call in flight
    numPages,         \* pages.length of the document the writer loads
    fontMetrics,      \* analyzePDF: the run list built by extractFontMetrics
    inconsistencies,  \* analyzePDF / generateReport: the issue lists by type
    report,           \* outcome of generateReport: a report or a thrown error
    score,            \* result of a direct call of calculateSeverityScore
    highlighted,      \* draw calls made on the suspicious-regions overlay
    fontType,         \* draw calls made on the font-type overlay
    logged,           \* what was handed to logger.error, in order
    outcome,          \* what the caller of analyzePDF receives
    instance          \* the fields of the one DocumentAnalyzer the server shares

vars == <<pc, numPages, fontMetrics, inconsistencies, report, score,
          highlighted, fontType, logged, outcome, instance>>

---------------------------------------------------------------------------
(* Bounds of the model *)

MaxRuns == 3

MaxIssues == 2

---------------------------------------------------------------------------
(* Program constants, in the model's fixed point *)

HeaderSize == 200

SubheaderSize == 140

MaxFamilies == 2

VarianceThreshold == 2

MIN_NORMAL_SPACING == 1

MAX_NORMAL_SPACING == 200

DefaultExtent == 100

PageHeight == 7920

None == "undefined"

---------------------------------------------------------------------------
(* Generic helpers *)

Range(s) == {s[i] : i \in 1..Len(s)}

Min(a, b) == IF a < b THEN a ELSE b

Max(a, b) == IF a > b THEN a ELSE b

RECURSIVE Uniq(_)
\* the values of s in order of first occurrence (insertion order of a JS Set/Map)
Uniq(s) ==
    IF s = <<>> THEN <<>>
    ELSE LET r == Uniq(SubSeq(s, 1, Len(s) - 1))
             e == s[Len(s)]
         IN  IF e \in Range(r) THEN r ELSE Append(r, e)

RECURSIVE SumSeq(_)
SumSeq(s) == IF s = <<>> THEN 0 ELSE s[1] + SumSeq(Tail(s))

RECURSIVE Flatten(_)
\* concatenation of a sequence of sequences
Flatten(ss) == IF ss = <<>> THEN <<>> ELSE ss[1] \o Flatten(Tail(ss))

Array(items) == [kind |-> "array", items |-> items]

IsArray(v) == v.kind = "array"

---------------------------------------------------------------------------
(* Text runs *)

Metric(f, s, x, y, w, h) ==
    [text |-> "Test", fontFamily |-> f, fontSize |-> s,
     position |-> [x |-> x, y |-> y], width |-> w, height |-> h]

\* The runs a document may hold: the mock runs of the three detector tests and
\* runs on the boundaries of the thresholds.
RunSet ==
    { Metric("Arial",     120,   0,     0, 100, 100),
      Metric("Times",     120, 200,     0, 100, 100),
      Metric("Helvetica", 120, 400,     0, 100, 100),
      Metric("Arial",     125, 200,     0, 100, 100),
      Metric("Arial",     130, 400,     0, 100, 100),
      Metric("Arial",     120, 500,     0, 100, 100),
      Metric("Arial",     120, 600,     0, 100, 100),
      Metric("Arial",      90, 101,     0,   0,   0),
      Metric("Arial",     160, 420,   160, 100, 100),
      Metric("Times",     180,  50,  7920,   0, 100),
      Metric("Helvetica", 200,   0, 15840, 100, 100),
      Metric("Courier",   240,   0,   -50, 100, 100) }

determineContext(metric) ==
    IF metric.fontSize > HeaderSize THEN "header"
    ELSE IF metric.fontSize > SubheaderSize THEN "subheader"
    ELSE "body"

\* the contexts of a run list in the order the grouping Map first sees them
ContextsOf(metrics) ==
    Uniq([i \in 1..Len(metrics) |-> determineContext(metrics[i])])

InContext(metrics, context) ==
    SelectSeq(metrics, LAMBDA m : determineContext(m) = context)

---------------------------------------------------------------------------
(* Font-family detector *)

FamilyGroup(metrics, context) ==
    LET ms == InContext(metrics, context)
    IN  Uniq([i \in 1..Len(ms) |-> ms[i].fontFamily])

FamilyFlaggedMut(fonts) == Len(fonts) > MaxFamilies + 1

FamilyFlagged(fonts) == Len(fonts) > MaxFamilies

analyzeFontFamilyConsistency(metrics) ==
    LET flagged == SelectSeq(ContextsOf(metrics),
                       LAMBDA c : FamilyFlagged(FamilyGroup(metrics, c)))
    IN  [i \in 1..Len(flagged) |->
            LET fonts == FamilyGroup(metrics, flagged[i])
            IN  [type |-> "fontFamily",
                 context |-> flagged[i],
                 description |-> <<"Multiple font families", Len(fonts)>>,
                 severity |-> "high",
                 detectedFonts |-> fonts]]

---------------------------------------------------------------------------
(* Font-size detector *)

SizeGroup(metrics, context) ==
    LET ms == InContext(metrics, context)
    IN  [i \in 1..Len(ms) |-> ms[i].fontSize]

\* sizes.reduce((a, b) => a + b) / sizes.length, as an exact fraction
Mean(sizes) == [num |-> SumSeq(sizes), den |-> Len(sizes)]

\* sizes.reduce((a, b) => a + Math.pow(b - mean, 2), 0) / sizes.length:
\* (b - num/den)^2 = (den*b - num)^2 / den^2, summed and divided by the length
Variance(sizes) ==
    LET mean == Mean(sizes)
        n == Len(sizes)
    IN  [num |-> SumSeq([i \in 1..n |->
                     (mean.den * sizes[i] - mean.num) * (mean.den * sizes[i] - mean.num)]),
         den |-> mean.den * mean.den * n]

\* frac > k for k in whole units; the sizes are in tenths, so k is k*100 in
\* the fraction's squared tenths
SizeFlaggedMut(variance) == variance.num >= VarianceThreshold * 100 * variance.den

SizeFlagged(variance) == variance.num > VarianceThreshold * 100 * variance.den

analyzeFontSizeConsistency(metrics) ==
    LET flagged == SelectSeq(ContextsOf(metrics),
                       LAMBDA c : SizeFlagged(Variance(SizeGroup(metrics, c))))
    IN  [i \in 1..Len(flagged) |->
            LET sizes == SizeGroup(metrics, flagged[i])
            IN  [type |-> "fontSize",
                 context |-> flagged[i],
                 description |-> "Suspicious font size variations detected",
                 severity |-> "medium",
                 details |-> [mean |-> Mean(sizes), variance |-> Variance(sizes)]]]

---------------------------------------------------------------------------
(* Spacing detector *)

\* Math.sqrt(dx^2 + dy^2), held by its radicand
calculateSpacing(prev, current) ==
    LET dx == current.position.x - (prev.position.x + prev.width)
        dy == current.position.y - prev.position.y
    IN  dx * dx + dy * dy

isSpacingAbnormalMut(spacing) ==
    \/ spacing <= MIN_NORMAL_SPACING * MIN_NORMAL_SPACING
    \/ spacing > MAX_NORMAL_SPACING * MAX_NORMAL_SPACING

\* spacing < 0.1 || spacing > 20 on the root, decided on the radicand
isSpacingAbnormal(spacing) ==
    \/ spacing < MIN_NORMAL_SPACING * MIN_NORMAL_SPACING
    \/ spacing > MAX_NORMAL_SPACING * MAX_NORMAL_SPACING

analyzeSpacingConsistency(metrics) ==
    LET abnormal == SelectSeq([i \in 1..Len(metrics) |-> i],
                        LAMBDA i : /\ i > 1
                                   /\ isSpacingAbnormal(
                                          calculateSpacing(metrics[i - 1], metrics[i])))
    IN  [k \in 1..Len(abnormal) |->
            [type |-> "spacing",
             position |-> metrics[abnormal[k]].position,
             description |-> "Abnormal character spacing detected",
             severity |-> "medium",
             details |-> [spacing |->
                 calculateSpacing(metrics[abnormal[k] - 1], metrics[abnormal[k]])]]]

---------------------------------------------------------------------------
(* Scoring engine *)

\* the issue list of one entry as the score and the count read it:
\* Array.isArray(issues) ? issues : (issues.issues || [])
IssuesListMut(issues) == IF IsArray(issues) THEN issues.items ELSE <<>>

IssuesList(issues) == IF IsArray(issues) THEN issues.items ELSE issues.issues

\* Object.values(inconsistencies).reduce(...) of generateReport
TotalIssuesMut(inc) ==
    Len(IssuesList(inc.fontFamily)) + Len(IssuesList(inc.fontSize))

TotalIssues(inc) ==
    Len(IssuesList(inc.fontFamily)) + Len(IssuesList(inc.fontSize))
        + Len(IssuesList(inc.spacing))

\* in tenths: high 1, medium 0.6, anything else 0.3
severityMultiplierMut(issue) ==
    IF issue.severity = "high" THEN 3
    ELSE IF issue.severity = "medium" THEN 6 ELSE 10

severityMultiplier(issue) ==
    IF issue.severity = "high" THEN 10
    ELSE IF issue.severity = "medium" THEN 6 ELSE 3

\* in tenths: weights[type] || 0
TypeWeight(type) ==
    CASE type = "fontFamily" -> 4
      [] type = "fontSize" -> 3
      [] type = "spacing" -> 3
      [] OTHER -> 0

IssueScore(issues) ==
    LET list == IssuesList(issues)
    IN  SumSeq([i \in 1..Len(list) |-> severityMultiplier(list[i])])

\* in hundredths
calculateSeverityScore(inc) ==
    IssueScore(inc.fontFamily) * TypeWeight("fontFamily")
        + IssueScore(inc.fontSize) * TypeWeight("fontSize")
        + IssueScore(inc.spacing) * TypeWeight("spacing")

\* in thousandths; severityScore / 10 in thousandths is the score in hundredths
calculateConfidenceScoreMut(totalIssues, severityScore) ==
    LET baseConfidence == Min(1000, Max(0, 1000 - severityScore))
        issuesPenalty == Min(500, totalIssues * 100)
    IN  Max(0, baseConfidence + issuesPenalty)

calculateConfidenceScore(totalIssues, severityScore) ==
    LET baseConfidence == Min(1000, Max(0, 1000 - severityScore))
        issuesPenalty == Min(500, totalIssues * 100)
    IN  Max(0, baseConfidence - issuesPenalty)

TypeError(message) == [name |-> "TypeError", message |-> message, cause |-> <<>>]

\* value.length: the length of an array, undefined on the wrapped object
LengthOf(value) == IF IsArray(value) THEN Len(value.items) ELSE None

\* The outcome of generateReport: the report it returns or the error it throws.
\* The timestamp (the wall clock) is left out.  inconsistencies.fontFamily.issues
\* is undefined on an array, and reading .length of it throws.
generateReport(inc) ==
    LET totalIssues == TotalIssues(inc)
        severityScore == calculateSeverityScore(inc)
    IN  IF IsArray(inc.fontFamily)
        THEN [threw |-> TRUE,
              error |-> TypeError("Cannot read properties of undefined (reading 'length')")]
        ELSE [threw |-> FALSE,
              suspicious |-> totalIssues > 0,
              severityScore |-> severityScore,
              confidence |-> calculateConfidenceScore(totalIssues, severityScore),
              summary |-> [totalIssues |-> totalIssues,
                           fontFamilyIssues |-> Len(inc.fontFamily.issues),
                           fontSizeIssues |-> LengthOf(inc.fontSize),
                           spacingIssues |-> LengthOf(inc.spacing)],
              details |-> [fontFamily |-> [issues |-> inc.fontFamily.issues,
                                           detectedFonts |-> inc.fontFamily.detectedFonts],
                           fontSize |-> inc.fontSize,
                           spacing |-> inc.spacing]]

---------------------------------------------------------------------------
(* Overlays: the draw calls handed to the external PDF writer *)

Rect(page, x, y, width, height, color, opacity) ==
    [op |-> "rect", page |-> page, x |-> x, y |-> y, width |-> width,
     height |-> height, color |-> color, opacity |-> opacity]

Text(page, text, x, y, size) ==
    [op |-> "text", page |-> page, text |-> text, x |-> x, y |-> y, size |-> size]

\* rgb(...) of the colors table, channels in tenths
Color(type) ==
    CASE type = "fontFamily" -> <<10, 0, 0>>
      [] type = "fontSize" -> <<10, 5, 0>>
      [] type = "spacing" -> <<10, 10, 0>>

IssueTypes == <<"fontFamily", "fontSize", "spacing">>

Opacity == 3

\* Math.floor(position.y / pages[0].getHeight())
PageIndex(position) == position.y \div PageHeight

PageInRangeMut(pageIndex, pages) == pageIndex >= 0 /\ pageIndex <= pages

PageInRange(pageIndex, pages) == pageIndex >= 0 /\ pageIndex < pages

\* value || 10
OrDefault(value) == IF value = 0 THEN DefaultExtent ELSE value

\* the drawRectangle calls of one inner loop over affectedMetrics
HighlightRuns(affected, color, pages) ==
    LET drawn == SelectSeq(affected, LAMBDA m : PageInRange(PageIndex(m.position), pages))
    IN  [i \in 1..Len(drawn) |->
            Rect(PageIndex(drawn[i].position),
                 drawn[i].position.x,
                 PageHeight - drawn[i].position.y,
                 OrDefault(drawn[i].width),
                 OrDefault(drawn[i].height),
                 color, Opacity)]

FamilyAffected(metrics, issue) ==
    SelectSeq(metrics, LAMBDA m : /\ m.fontFamily \in Range(issue.detectedFonts)
                                  /\ determineContext(m) = issue.context)

SizeAffectedMut(metrics, issue) == metrics

SizeAffected(metrics, issue) ==
    SelectSeq(metrics, LAMBDA m : determineContext(m) = issue.context)

HighlightSpacing(issues, pages) ==
    LET drawn == SelectSeq(issues, LAMBDA i : PageInRange(PageIndex(i.position), pages))
    IN  [i \in 1..Len(drawn) |->
            Rect(PageIndex(drawn[i].position),
                 drawn[i].position.x,
                 PageHeight - drawn[i].position.y,
                 DefaultExtent, DefaultExtent,
                 Color("spacing"), Opacity)]

LegendLabel(type) ==
    CASE type = "fontFamily" -> "FontFamily Issues"
      [] type = "fontSize" -> "FontSize Issues"
      [] type = "spacing" -> "Spacing Issues"

\* legendX = legendY = 50; the heading and one swatch and label per issue type
HighlightLegend ==
    <<Text(0, <<"Suspicious Areas Legend:">>, 500, 500 + 600, 120)>>
    \o Flatten([i \in 1..3 |->
           <<Rect(0, 500, 500 + (i - 1) * 200, 150, 150, Color(IssueTypes[i]), Opacity),
             Text(0, <<LegendLabel(IssueTypes[i])>>, 500 + 250, 500 + (i - 1) * 200 + 40, 100)>>])

\* the drawRectangle calls of the three highlight loops, before the legend
HighlightRects(metrics, inc, pages) ==
    Flatten([i \in 1..Len(inc.fontFamily.issues) |->
                HighlightRuns(FamilyAffected(metrics, inc.fontFamily.issues[i]),
                              Color("fontFamily"), pages)])
    \o Flatten([i \in 1..Len(inc.fontSize.items) |->
                HighlightRuns(SizeAffected(metrics, inc.fontSize.items[i]),
                              Color("fontSize"), pages)])
    \o HighlightSpacing(inc.spacing.items, pages)

\* every draw call of generateHighlightedPDF on the loaded document
generateHighlightedPDF(metrics, inc, pages) ==
    HighlightRects(metrics, inc, pages) \o HighlightLegend

\* the color of the font at `index` of `count`: hue = index / count; the three
\* phase-shifted sines are left as the hue they are taken of
FontColor(index, count) == [hue |-> [num |-> index, den |-> count]]

IndexOf(s, e) == CHOOSE i \in 1..Len(s) : s[i] = e

Occurrences(metrics, font) == Len(SelectSeq(metrics, LAMBDA m : m.fontFamily = font))

UniqueFonts(metrics) == Uniq([i \in 1..Len(metrics) |-> metrics[i].fontFamily])

\* every draw call of generateFontTypePDF on the loaded document
generateFontTypePDF(metrics, pages) ==
    LET uniqueFonts == UniqueFonts(metrics)
        n == Len(uniqueFonts)
        drawn == SelectSeq(metrics, LAMBDA m : PageInRange(PageIndex(m.position), pages))
    IN  [i \in 1..Len(drawn) |->
            Rect(PageIndex(drawn[i].position),
                 drawn[i].position.x,
                 PageHeight - drawn[i].position.y,
                 OrDefault(drawn[i].width),
                 OrDefault(drawn[i].height),
                 FontColor(IndexOf(uniqueFonts, drawn[i].fontFamily) - 1, n), Opacity)]
        \o <<Text(0, <<"Font Types Legend:">>, 500, 500 + n * 200 + 400, 120)>>
        \o Flatten([i \in 1..n |->
               <<Rect(0, 500, 500 + (i - 1) * 200, 150, 150, FontColor(i - 1, n), Opacity),
                 Text(0, <<uniqueFonts[i], Occurrences(metrics, uniqueFonts[i])>>,
                      500 + 250, 500 + (i - 1) * 200 + 40, 100)>>])

\* pdfDoc.save(): the bytes of the document with the draw calls burnt in
Save(ops) == [pdf |-> ops]

\* Buffer.from(bytes).toString('base64')
Base64(bytes) == [base64 |-> bytes]

---------------------------------------------------------------------------
(* Errors and the catch blocks *)

Error(message) == [name |-> "Error", message |-> message, cause |-> <<>>]

\* what the external parser (pdfjs) and writer (pdf-lib) may reject with
ParserErrors == {Error("parser: invalid PDF structure")}

WriterErrors == {Error("writer: cannot load document"),
                 Error("writer: malformed geometry")}

LogEntry(message, error) == [message |-> message, error |-> error]

\* catch (error) { logger.error(...); throw new Error('...') }: what is thrown
HighlightCatch(error) == Error("Failed to generate highlighted PDF")

FontTypeCatch(error) == Error("Failed to generate font type PDF")

AnalyzeCatchMut(error) == error

AnalyzeCatch(error) == Error("Failed to analyze PDF document")

Pending == [status |-> "pending"]

Thrown(error) == [status |-> "thrown", error |-> error]

NoIssues == [fontFamily |-> Array(<<>>), fontSize |-> Array(<<>>), spacing |-> Array(<<>>)]

NoReport == [threw |-> FALSE, suspicious |-> FALSE, severityScore |-> 0,
             confidence |-> 0, summary |-> <<>>, details |-> <<>>]

PageCounts == {1, 2}

\* the constructor: a tokenizer and an empty Map of baseline metrics
Constructed == [tokenizer |-> "WordTokenizer", baselineFontMetrics |-> <<>>]

---------------------------------------------------------------------------
(* analyzePDF, one call from the request handler *)

Init ==
    /\ pc = "extract"
    /\ numPages \in PageCounts
    /\ fontMetrics = <<>>
    /\ inconsistencies = NoIssues
    /\ report = NoReport
    /\ score = 0
    /\ highlighted = <<>>
    /\ fontType = <<>>
    /\ logged = <<>>
    /\ outcome = Pending
    /\ instance = Constructed

\* extractFontMetrics: one fontMetrics.push of the loops over pages and items
ExtractItem(item) ==
    /\ pc = "extract"
    /\ Len(fontMetrics) < MaxRuns
    /\ fontMetrics' = Append(fontMetrics, item)
    /\ UNCHANGED <<instance, pc, numPages, inconsistencies, report, score, highlighted,
                   fontType, logged, outcome>>

\* extractFontMetrics returns the list
ExtractReturn ==
    /\ pc = "extract"
    /\ pc' = "family"
    /\ UNCHANGED <<instance, numPages, fontMetrics, inconsistencies, report, score,
                   highlighted, fontType, logged, outcome>>

\* the parser rejects; analyzePDF's catch logs and throws its own error
ExtractFails(error) ==
    /\ pc = "extract"
    /\ logged' = Append(logged, LogEntry("Error analyzing PDF:", error))
    /\ outcome' = Thrown(AnalyzeCatch(error))
    /\ pc' = "failed"
    /\ UNCHANGED <<instance, numPages, fontMetrics, inconsistencies, report, score,
                   highlighted, fontType>>

AnalyzeFontFamily ==
    /\ pc = "family"
    /\ inconsistencies' = [inconsistencies EXCEPT
           !.fontFamily = Array(analyzeFontFamilyConsistency(fontMetrics))]
    /\ pc' = "size"
    /\ UNCHANGED <<instance, numPages, fontMetrics, report, score, highlighted, fontType,
                   logged, outcome>>

AnalyzeFontSize ==
    /\ pc = "size"
    /\ inconsistencies' = [inconsistencies EXCEPT
           !.fontSize = Array(analyzeFontSizeConsistency(fontMetrics))]
    /\ pc' = "spacing"
    /\ UNCHANGED <<instance, numPages, fontMetrics, report, score, highlighted, fontType,
                   logged, outcome>>

AnalyzeSpacing ==
    /\ pc = "spacing"
    /\ inconsistencies' = [inconsistencies EXCEPT
           !.spacing = Array(analyzeSpacingConsistency(fontMetrics))]
    /\ pc' = "report"
    /\ UNCHANGED <<instance, numPages, fontMetrics, report, score, highlighted, fontType,
                   logged, outcome>>

\* the detectedFonts inventory of analyzePDF: every family with its run count
DetectedFonts(metrics) ==
    LET uniqueFontFamilies == UniqueFonts(metrics)
    IN  [i \in 1..Len(uniqueFontFamilies) |->
            [name |-> uniqueFontFamilies[i],
             occurrences |-> Occurrences(metrics, uniqueFontFamilies[i])]]

Wrap(issues, detectedFonts) ==
    [kind |-> "object", issues |-> issues, detectedFonts |-> detectedFonts]

\* analyzePDF wraps the font-family list and calls generateReport
Report ==
    /\ pc = "report"
    /\ inconsistencies' = [inconsistencies EXCEPT
           !.fontFamily = Wrap(inconsistencies.fontFamily.items,
                               DetectedFonts(fontMetrics))]
    /\ report' = generateReport(inconsistencies')
    /\ IF report'.threw
       THEN /\ logged' = Append(logged, LogEntry("Error analyzing PDF:", report'.error))
            /\ outcome' = Thrown(AnalyzeCatch(report'.error))
            /\ pc' = "failed"
       ELSE /\ pc' = "highlight"
            /\ UNCHANGED <<instance, logged, outcome>>
    /\ UNCHANGED <<instance, numPages, fontMetrics, score, highlighted, fontType>>

\* generateHighlightedPDF draws and saves
GenerateHighlighted ==
    /\ pc = "highlight"
    /\ highlighted' = generateHighlightedPDF(fontMetrics, inconsistencies, numPages)
    /\ pc' = "fonttype"
    /\ UNCHANGED <<instance, numPages, fontMetrics, inconsistencies, report, score,
                   fontType, logged, outcome>>

\* the writer rejects inside generateHighlightedPDF: its catch logs and throws,
\* and analyzePDF's catch logs and throws again
HighlightFails(error) ==
    /\ pc = "highlight"
    /\ logged' = logged
           \o <<LogEntry("Error generating highlighted PDF:", error),
                LogEntry("Error analyzing PDF:", HighlightCatch(error))>>
    /\ outcome' = Thrown(AnalyzeCatch(HighlightCatch(error)))
    /\ pc' = "failed"
    /\ UNCHANGED <<instance, numPages, fontMetrics, inconsistencies, report, score,
                   highlighted, fontType>>

\* generateFontTypePDF draws and saves; analyzePDF returns
GenerateFontType ==
    /\ pc = "fonttype"
    /\ fontType' = generateFontTypePDF(fontMetrics, numPages)
    /\ outcome' = [status |-> "returned",
                   report |-> report,
                   highlightedPdf |-> Base64(Save(highlighted)),
                   fontTypePdf |-> Base64(Save(fontType'))]
    /\ pc' = "done"
    /\ UNCHANGED <<instance, numPages, fontMetrics, inconsistencies, report, score,
                   highlighted, logged>>

FontTypeFails(error) ==
    /\ pc = "fonttype"
    /\ logged' = logged
           \o <<LogEntry("Error generating font type PDF:", error),
                LogEntry("Error analyzing PDF:", FontTypeCatch(error))>>
    /\ outcome' = Thrown(AnalyzeCatch(FontTypeCatch(error)))
    /\ pc' = "failed"
    /\ UNCHANGED <<instance, numPages, fontMetrics, inconsistencies, report, score,
                   highlighted, fontType>>

Next ==
    \/ \E item \in RunSet : ExtractItem(item)
    \/ ExtractReturn
    \/ \E error \in ParserErrors : ExtractFails(error)
    \/ AnalyzeFontFamily
    \/ AnalyzeFontSize
    \/ AnalyzeSpacing
    \/ Report
    \/ GenerateHighlighted
    \/ \E error \in WriterErrors : HighlightFails(error)
    \/ GenerateFontType
    \/ \E error \in WriterErrors : FontTypeFails(error)

Spec == Init /\ [][Next]_vars

---------------------------------------------------------------------------
(* generateReport and calculateSeverityScore called directly, as the test   *)
(* 'should generate comprehensive report' calls them, on issue lists built  *)
(* by the caller                                                            *)

Severities == <<"low", "medium", "high">>

\* an issue as the test writes it
TestIssue(type, severity) == [type |-> type, severity |-> severity, description |-> "Test"]

\* the inventories a caller may pass in the wrapped font-family entry
Inventories == {<<>>, <<[name |-> "Arial", occurrences |-> 3]>>}

\* the entry with its issue list replaced
WithIssues(entry, list) ==
    IF IsArray(entry) THEN Array(list) ELSE [entry EXCEPT !.issues = list]

Worse(severity) == IF severity = "low" THEN "medium" ELSE "high"

InitReport ==
    /\ pc = "scoring"
    /\ numPages = 1
    /\ fontMetrics = <<>>
    /\ \E fontFamily \in {Array(<<>>)} \cup {Wrap(<<>>, d) : d \in Inventories} :
           inconsistencies = [NoIssues EXCEPT !.fontFamily = fontFamily]
    /\ report = generateReport(inconsistencies)
    /\ score = calculateSeverityScore(inconsistencies)
    /\ highlighted = <<>>
    /\ fontType = <<>>
    /\ logged = <<>>
    /\ outcome = Pending
    /\ instance = Constructed

\* the caller adds one issue to a list and scores the lists again
ScoreWithAdded(type, severity) ==
    /\ pc = "scoring"
    /\ Len(IssuesList(inconsistencies[type])) < MaxIssues
    /\ inconsistencies' = [inconsistencies EXCEPT
           ![type] = WithIssues(@, Append(IssuesList(@), TestIssue(type, severity)))]
    /\ report' = generateReport(inconsistencies')
    /\ score' = calculateSeverityScore(inconsistencies')
    /\ UNCHANGED <<instance, pc, numPages, fontMetrics, highlighted, fontType, logged, outcome>>

\* the caller makes one issue one step worse and scores the lists again
ScoreWithWorse(type, index) ==
    /\ pc = "scoring"
    /\ index \in 1..Len(IssuesList(inconsistencies[type]))
    /\ IssuesList(inconsistencies[type])[index].severity # "high"
    /\ inconsistencies' = [inconsistencies EXCEPT
           ![type] = WithIssues(@, [IssuesList(@) EXCEPT
                         ![index].severity = Worse(@)])]
    /\ report' = generateReport(inconsistencies')
    /\ score' = calculateSeverityScore(inconsistencies')
    /\ UNCHANGED <<instance, pc, numPages, fontMetrics, highlighted, fontType, logged, outcome>>

NextReport ==
    \/ \E type \in Range(IssueTypes), severity \in Range(Severities) :
           ScoreWithAdded(type, severity)
    \/ \E type \in Range(IssueTypes), index \in 1..MaxIssues :
           ScoreWithWorse(type, index)

SpecReport == InitReport /\ [][NextReport]_vars

---------------------------------------------------------------------------
(* Properties *)

Contexts == {"header", "subheader", "body"}

\* the positions of analyzePDF at which each detector has returned
FamilyDone == pc \in {"size", "spacing", "report", "highlight", "fonttype", "done"}

SizeDone == pc \in {"spacing", "report", "highlight", "fonttype", "done"}

SpacingDone == pc \in {"report", "highlight", "fonttype", "done"}

HighlightDone == pc \in {"fonttype", "done"}

\* the runs of the list whose font size puts them in `context`
RunsIn(context) ==
    {i \in 1..Len(fontMetrics) :
        CASE context = "header" -> fontMetrics[i].fontSize > 200
          [] context = "subheader" -> fontMetrics[i].fontSize > 140
                                        /\ fontMetrics[i].fontSize <= 200
          [] OTHER -> fontMetrics[i].fontSize <= 140}

FamilyIssues == IF IsArray(inconsistencies.fontFamily)
                THEN inconsistencies.fontFamily.items
                ELSE inconsistencies.fontFamily.issues

SizeIssues == inconsistencies.fontSize.items

SpacingIssues == inconsistencies.spacing.items

IssuesIn(issues, context) == {k \in 1..Len(issues) : issues[k].context = context}

(* C1: generateReport, given the three issue lists as plain arrays keyed   *)
(* fontFamily, fontSize and spacing, returns a report (with suspicious,    *)
(* severityScore, confidence, summary and details) and does not throw.     *)
C1_ReportOnPlainArrays ==
    (/\ pc = "scoring"
     /\ IsArray(inconsistencies.fontFamily)
     /\ IsArray(inconsistencies.fontSize)
     /\ IsArray(inconsistencies.spacing))
    => (/\ ~report.threw
        /\ {"suspicious", "severityScore", "confidence", "summary", "details"}
               \subseteq DOMAIN report)

(* C2: analyzeFontFamilyConsistency returns exactly one issue for each     *)
(* context with at least 3 distinct families among its runs and none for a *)
(* context with at most 2; the issue has severity high, carries the context *)
(* and its detectedFonts, as a set, are the distinct families of the       *)
(* context's runs.                                                         *)
C2_FamilyIssuePerContext ==
    FamilyDone =>
        /\ \A k \in 1..Len(FamilyIssues) : FamilyIssues[k].context \in Contexts
        /\ \A c \in Contexts :
              LET families == {fontMetrics[i].fontFamily : i \in RunsIn(c)}
                  mine == IssuesIn(FamilyIssues, c)
              IN  IF Cardinality(families) >= 3
                  THEN /\ Cardinality(mine) = 1
                       /\ \A k \in mine :
                            /\ FamilyIssues[k].severity = "high"
                            /\ Range(FamilyIssues[k].detectedFonts) = families
                  ELSE mine = {}

C2_Witness ==
    /\ FamilyDone
    /\ Len(FamilyIssues) = 1
    /\ Cardinality(Range(FamilyIssues[1].detectedFonts)) = 3

\* n * sum(x^2) - (sum x)^2 > 2 * n^2: the population variance of the sizes
\* of the runs in `context` exceeds 2 (sizes in tenths, so 200 for 2)
VarianceAbove2(context) ==
    LET idx == RunsIn(context)
        sizes == [i \in 1..Len(fontMetrics) |->
                     IF i \in idx THEN fontMetrics[i].fontSize ELSE 0]
        n == Cardinality(idx)
        sum == SumSeq(sizes)
        squares == SumSeq([i \in 1..Len(sizes) |-> sizes[i] * sizes[i]])
    IN  n * squares - sum * sum > 200 * n * n

C4_UnequalSizesDetected ==
    (/\ SizeDone
     /\ \E c \in Contexts :
           Cardinality({fontMetrics[i].fontSize : i \in RunsIn(c)}) > 1)
    => Len(SizeIssues) >= 1

\* the squared distance (in squared tenths) from the right edge of run i - 1
\* to the origin of run i
GapSquared(i) ==
    LET prev == fontMetrics[i - 1]
        cur == fontMetrics[i]
        dx == cur.position.x - prev.position.x - prev.width
        dy == cur.position.y - prev.position.y
    IN  dx * dx + dy * dy

\* distance < 0.1 or distance > 20
GapOutside(i) == GapSquared(i) < 1 \/ GapSquared(i) > 40000

(* C5: analyzeSpacingConsistency emits one medium issue for the run at     *)
(* index i >= 1 iff the distance from its predecessor's right edge to its  *)
(* origin is strictly below 0.1 or strictly above 20 (exactly 0.1 and      *)
(* exactly 20 emit nothing, the first run emits nothing); the issues are   *)
(* in run order and carry the run's position and the distance.             *)
C5_SpacingIssuePerGap ==
    SpacingDone =>
        LET flagged == {i \in 2..Len(fontMetrics) : GapOutside(i)}
        IN  /\ Len(SpacingIssues) = Cardinality(flagged)
            /\ \A k \in 1..Len(SpacingIssues) :
                  \E i \in flagged :
                     /\ Cardinality({j \in flagged : j < i}) = k - 1
                     /\ SpacingIssues[k].severity = "medium"
                     /\ SpacingIssues[k].position = fontMetrics[i].position
                     /\ SpacingIssues[k].details.spacing = GapSquared(i)
            /\ \A i \in 2..Len(fontMetrics) :
                  GapSquared(i) \in {1, 40000} => i \notin flagged

C5_Witness ==
    /\ SpacingDone
    /\ Len(SpacingIssues) = 1
    /\ \E i \in 2..Len(fontMetrics) : GapSquared(i) = 40000 /\ ~GapOutside(i)
    /\ \E i \in 2..Len(fontMetrics) : GapSquared(i) < 1

\* the issue list of one type, whichever shape the entry has
ListOf(type) ==
    IF inconsistencies[type].kind = "array"
    THEN inconsistencies[type].items
    ELSE inconsistencies[type].issues

CountOf(type, severity) ==
    Cardinality({k \in 1..Len(ListOf(type)) : ListOf(type)[k].severity = severity})

\* the multipliers 1.0, 0.6 and 0.3 summed over the issues of a type, in tenths
MultiplierSum(type) ==
    10 * CountOf(type, "high") + 6 * CountOf(type, "medium") + 3 * CountOf(type, "low")

\* 0.4, 0.3 and 0.3 times the sums, in hundredths
WeightedScore ==
    4 * MultiplierSum("fontFamily") + 3 * MultiplierSum("fontSize")
        + 3 * MultiplierSum("spacing")

C7_ReportInvariants ==
    (pc = "scoring" /\ ~report.threw) =>
        /\ report.confidence >= 0
        /\ report.confidence <= 1000
        /\ report.suspicious <=> report.summary.totalIssues > 0
        /\ report.summary.fontFamilyIssues = Len(ListOf("fontFamily"))
        /\ report.summary.fontSizeIssues = Len(ListOf("fontSize"))
        /\ report.summary.spacingIssues = Len(ListOf("spacing"))
        /\ report.summary.totalIssues =
              report.summary.fontFamilyIssues + report.summary.fontSizeIssues
                  + report.summary.spacingIssues

C7_Witness ==
    /\ pc = "scoring"
    /\ ~report.threw
    /\ report.suspicious
    /\ report.summary.spacingIssues >= 1
    /\ report.summary.totalIssues >= 3

(* C8: adding one more issue of any type and severity, or making one issue *)
(* one step worse (low to medium, medium to high), never raises the        *)
(* confidence of the report.                                               *)
C8_ConfidenceMonotone ==
    [][(~report.threw /\ ~report'.threw) => report'.confidence <= report.confidence]_vars

C8_Witness ==
    /\ pc = "scoring"
    /\ ~report.threw
    /\ report.summary.totalIssues >= 2
    /\ report.confidence < 1000

\* the writer rejected while an overlay was produced, and the error it gave
WriterFailed ==
    /\ pc = "failed"
    /\ Len(logged) = 2
    /\ logged[1].message \in {"Error generating highlighted PDF:",
                              "Error generating font type PDF:"}

WriterError == logged[1].error

(* C9: when the writer fails while an overlay is produced, the error the   *)
(* caller of analyzePDF receives carries or identifies the writer's        *)
(* original error.                                                         *)
C9_CausePreserved ==
    WriterFailed =>
        /\ outcome.status = "thrown"
        /\ \/ outcome.error = WriterError
           \/ WriterError \in Range(outcome.error.cause)
           \/ outcome.error.message = WriterError.message

(* C9, amended: when the writer fails while an overlay is produced, the    *)
(* caller of analyzePDF receives a new error 'Failed to analyze PDF        *)
(* document' without a cause, the same for every writer error; the         *)
(* writer's error is only handed to the logger, as is the overlay          *)
(* function's own replacement error.                                       *)
C9_CauseReplaced ==
    WriterFailed =>
        /\ outcome.status = "thrown"
        /\ outcome.error.message = "Failed to analyze PDF document"
        /\ outcome.error.cause = <<>>
        /\ WriterError \in WriterErrors
        /\ logged[2].message = "Error analyzing PDF:"
        /\ logged[2].error.message \in {"Failed to generate highlighted PDF",
                                        "Failed to generate font type PDF"}
        /\ logged[2].error.cause = <<>>

C9_Witness ==
    /\ WriterFailed
    /\ logged[1].message = "Error generating font type PDF:"
    /\ WriterError.message = "writer: malformed geometry"

\* the matched runs and positions: <<type, issue, run>> (run 0 for the stored
\* position of a spacing issue)
Matched ==
    LET candidates == (Range(IssueTypes) \X (1..(Len(fontMetrics) + 1)))
                          \X (0..Len(fontMetrics))
        pairs == {<<c[1][1], c[1][2], c[2]>> : c \in candidates}
    IN  {p \in pairs :
            CASE p[1] = "fontFamily" ->
                    /\ p[2] \in 1..Len(FamilyIssues)
                    /\ p[3] \in RunsIn(FamilyIssues[p[2]].context)
                    /\ fontMetrics[p[3]].fontFamily
                           \in Range(FamilyIssues[p[2]].detectedFonts)
              [] p[1] = "fontSize" ->
                    /\ p[2] \in 1..Len(SizeIssues)
                    /\ p[3] \in RunsIn(SizeIssues[p[2]].context)
              [] OTHER ->
                    /\ p[2] \in 1..Len(SpacingIssues)
                    /\ p[3] = 0}

MatchedPosition(p) ==
    IF p[1] = "spacing" THEN SpacingIssues[p[2]].position ELSE fontMetrics[p[3]].position

\* floor(position.y / pageHeight) is the index of a page of the document
OnPage(p, page) ==
    /\ page \in 0..(numPages - 1)
    /\ page * 7920 <= MatchedPosition(p).y
    /\ MatchedPosition(p).y < (page + 1) * 7920

TypeColor(type) ==
    IF type = "fontFamily" THEN <<10, 0, 0>>
    ELSE IF type = "fontSize" THEN <<10, 5, 0>>
    ELSE <<10, 10, 0>>

\* the rectangles drawn before the legend
Highlights == SubSeq(highlighted, 1, Len(highlighted) - Len(HighlightLegend))

\* the rectangles drawn on `page` in the color of `type` with opacity 0.3
Marks(type, page) ==
    {k \in 1..Len(Highlights) :
        /\ Highlights[k].op = "rect"
        /\ Highlights[k].page = page
        /\ Highlights[k].color = TypeColor(type)
        /\ Highlights[k].opacity = 3}

(* C10: in the suspicious-regions overlay every matched run or position    *)
(* (per fontFamily issue the runs of its context with a family in its      *)
(* detectedFonts, per fontSize issue the runs of its context, per spacing  *)
(* issue its stored position) becomes exactly one rectangle, on page       *)
(* floor(position.y / pageHeight), in the issue type's color with opacity  *)
(* 0.3: none is left without a rectangle.                                  *)
C10_EveryMatchDrawn ==
    HighlightDone =>
        /\ Len(Highlights) = Cardinality(Matched)
        /\ \A type \in Range(IssueTypes), page \in -1..3 :
              Cardinality(Marks(type, page)) =
                  Cardinality({p \in Matched :
                      /\ p[1] = type
                      /\ page * 7920 <= MatchedPosition(p).y
                      /\ MatchedPosition(p).y < (page + 1) * 7920})

(* C10, amended: every matched run or position whose page index            *)
(* floor(position.y / pageHeight) is the index of a page of the document   *)
(* (0 <= index < pages.length) becomes exactly one rectangle, on that page, *)
(* in the issue type's color with opacity 0.3; a matched run or position   *)
(* whose page index is negative or not below pages.length gets none.       *)
C10_EveryMatchOnAPageDrawn ==
    HighlightDone =>
        /\ Len(Highlights) =
              Cardinality({p \in Matched : \E page \in 0..(numPages - 1) : OnPage(p, page)})
        /\ \A type \in Range(IssueTypes), page \in -1..3 :
              Cardinality(Marks(type, page)) =
                  Cardinality({p \in Matched : p[1] = type /\ OnPage(p, page)})

C10_Witness ==
    /\ HighlightDone
    /\ \E p \in Matched : \E page \in 0..(numPages - 1) : OnPage(p, page)
    /\ \E p \in Matched : p[1] = "fontSize" /\ MatchedPosition(p).y >= numPages * 7920
    /\ \E p \in Matched : p[1] = "spacing" /\ MatchedPosition(p).y < 0

---------------------------------------------------------------------------
(* Two requests in flight: the handler of POST /analyze calls analyzePDF   *)
(* of the one shared analyzer for each, and the calls interleave at their  *)
(* awaits.  The locals of a call (pc, numPages, fontMetrics,               *)
(* inconsistencies, report, the overlays, outcome) are held per call, as   *)
(* functions of the call; the logger and the analyzer instance are shared. *)

Calls == {1, 2}

\* the run lists the parser may extract from an uploaded document
Documents ==
    { <<>>,
      <<Metric("Arial", 120, 0, 0, 100, 100), Metric("Times", 120, 200, 0, 100, 100),
        Metric("Helvetica", 120, 400, 0, 100, 100)>>,
      <<Metric("Arial", 120, 0, 0, 100, 100), Metric("Arial", 125, 200, 0, 100, 100),
        Metric("Arial", 130, 400, 0, 100, 100)>>,
      <<Metric("Arial", 120, 0, 0, 100, 100), Metric("Arial", 120, 500, 0, 100, 100),
        Metric("Arial", 120, 600, 0, 100, 100)>>,
      <<Metric("Arial", 90, 101, 0, 0, 0), Metric("Arial", 130, 400, 0, 100, 100)>>,
      <<Metric("Arial", 160, 420, 160, 100, 100), Metric("Times", 180, 50, 7920, 0, 100),
        Metric("Helvetica", 200, 0, 15840, 100, 100)>> }

LocalMetricsMut(lists, self) == lists[1]

\* the fontMetrics a call reads: the const of its own invocation
LocalMetrics(lists, self) == lists[self]

InitConcurrent ==
    /\ pc = [c \in Calls |-> "extract"]
    /\ numPages \in [Calls -> PageCounts]
    /\ fontMetrics = [c \in Calls |-> <<>>]
    /\ inconsistencies = [c \in Calls |-> NoIssues]
    /\ report = [c \in Calls |-> NoReport]
    /\ score = 0
    /\ highlighted = [c \in Calls |-> <<>>]
    /\ fontType = [c \in Calls |-> <<>>]
    /\ logged = <<>>
    /\ outcome = [c \in Calls |-> Pending]
    /\ instance = Constructed

\* await extractFontMetrics(pdfBuffer) resolves with the document's runs
CallExtract(self, document) ==
    /\ pc[self] = "extract"
    /\ fontMetrics' = [fontMetrics EXCEPT ![self] = document]
    /\ pc' = [pc EXCEPT ![self] = "family"]
    /\ UNCHANGED <<instance, numPages, inconsistencies, report, score, highlighted,
                   fontType, logged, outcome>>

CallExtractFails(self, error) ==
    /\ pc[self] = "extract"
    /\ logged' = Append(logged, LogEntry("Error analyzing PDF:", error))
    /\ outcome' = [outcome EXCEPT ![self] = Thrown(AnalyzeCatch(error))]
    /\ pc' = [pc EXCEPT ![self] = "failed"]
    /\ UNCHANGED <<instance, numPages, fontMetrics, inconsistencies, report, score,
                   highlighted, fontType>>

CallAnalyzeFontFamily(self) ==
    /\ pc[self] = "family"
    /\ inconsistencies' = [inconsistencies EXCEPT ![self].fontFamily =
           Array(analyzeFontFamilyConsistency(LocalMetrics(fontMetrics, self)))]
    /\ pc' = [pc EXCEPT ![self] = "size"]
    /\ UNCHANGED <<instance, numPages, fontMetrics, report, score, highlighted,
                   fontType, logged, outcome>>

CallAnalyzeFontSize(self) ==
    /\ pc[self] = "size"
    /\ inconsistencies' = [inconsistencies EXCEPT ![self].fontSize =
           Array(analyzeFontSizeConsistency(LocalMetrics(fontMetrics, self)))]
    /\ pc' = [pc EXCEPT ![self] = "spacing"]
    /\ UNCHANGED <<instance, numPages, fontMetrics, report, score, highlighted,
                   fontType, logged, outcome>>

CallAnalyzeSpacing(self) ==
    /\ pc[self] = "spacing"
    /\ inconsistencies' = [inconsistencies EXCEPT ![self].spacing =
           Array(analyzeSpacingConsistency(LocalMetrics(fontMetrics, self)))]
    /\ pc' = [pc EXCEPT ![self] = "report"]
    /\ UNCHANGED <<instance, numPages, fontMetrics, report, score, highlighted,
                   fontType, logged, outcome>>

CallReport(self) ==
    /\ pc[self] = "report"
    /\ inconsistencies' = [inconsistencies EXCEPT ![self].fontFamily =
           Wrap(inconsistencies[self].fontFamily.items,
                DetectedFonts(LocalMetrics(fontMetrics, self)))]
    /\ report' = [report EXCEPT ![self] = generateReport(inconsistencies'[self])]
    /\ IF report'[self].threw
       THEN /\ logged' = Append(logged,
                            LogEntry("Error analyzing PDF:", report'[self].error))
            /\ outcome' = [outcome EXCEPT
                              ![self] = Thrown(AnalyzeCatch(report'[self].error))]
            /\ pc' = [pc EXCEPT ![self] = "failed"]
       ELSE /\ pc' = [pc EXCEPT ![self] = "highlight"]
            /\ UNCHANGED <<logged, outcome>>
    /\ UNCHANGED <<instance, numPages, fontMetrics, score, highlighted, fontType>>

CallGenerateHighlighted(self) ==
    /\ pc[self] = "highlight"
    /\ highlighted' = [highlighted EXCEPT ![self] =
           generateHighlightedPDF(LocalMetrics(fontMetrics, self),
                                  inconsistencies[self], numPages[self])]
    /\ pc' = [pc EXCEPT ![self] = "fonttype"]
    /\ UNCHANGED <<instance, numPages, fontMetrics, inconsistencies, report, score,
                   fontType, logged, outcome>>

CallHighlightFails(self, error) ==
    /\ pc[self] = "highlight"
    /\ logged' = logged
           \o <<LogEntry("Error generating highlighted PDF:", error),
                LogEntry("Error analyzing PDF:", HighlightCatch(error))>>
    /\ outcome' = [outcome EXCEPT ![self] = Thrown(AnalyzeCatch(HighlightCatch(error)))]
    /\ pc' = [pc EXCEPT ![self] = "failed"]
    /\ UNCHANGED <<instance, numPages, fontMetrics, inconsistencies, report, score,
                   highlighted, fontType>>

CallGenerateFontType(self) ==
    /\ pc[self] = "fonttype"
    /\ fontType' = [fontType EXCEPT ![self] =
           generateFontTypePDF(LocalMetrics(fontMetrics, self), numPages[self])]
    /\ outcome' = [outcome EXCEPT ![self] =
           [status |-> "returned",
            report |-> report[self],
            highlightedPdf |-> Base64(Save(highlighted[self])),
            fontTypePdf |-> Base64(Save(fontType'[self]))]]
    /\ pc' = [pc EXCEPT ![self] = "done"]
    /\ UNCHANGED <<instance, numPages, fontMetrics, inconsistencies, report, score,
                   highlighted, logged>>

CallFontTypeFails(self, error) ==
    /\ pc[self] = "fonttype"
    /\ logged' = logged
           \o <<LogEntry("Error generating font type PDF:", error),
                LogEntry("Error analyzing PDF:", FontTypeCatch(error))>>
    /\ outcome' = [outcome EXCEPT ![self] = Thrown(AnalyzeCatch(FontTypeCatch(error)))]
    /\ pc' = [pc EXCEPT ![self] = "failed"]
    /\ UNCHANGED <<instance, numPages, fontMetrics, inconsistencies, report, score,
                   highlighted, fontType>>

NextConcurrent ==
    \E self \in Calls :
        \/ \E document \in Documents : CallExtract(self, document)
        \/ \E error \in ParserErrors : CallExtractFails(self, error)
        \/ CallAnalyzeFontFamily(self)
        \/ CallAnalyzeFontSize(self)
        \/ CallAnalyzeSpacing(self)
        \/ CallReport(self)
        \/ CallGenerateHighlighted(self)
        \/ \E error \in WriterErrors : CallHighlightFails(self, error)
        \/ CallGenerateFontType(self)
        \/ \E error \in WriterErrors : CallFontTypeFails(self, error)

SpecConcurrent == InitConcurrent /\ [][NextConcurrent]_vars

\* what analyzePDF reports for a run list when the call runs alone: the three
\* detectors in turn, the wrapping, generateReport
AloneReport(metrics) ==
    generateReport(
        [fontFamily |-> Wrap(analyzeFontFamilyConsistency(metrics), DetectedFonts(metrics)),
         fontSize |-> Array(analyzeFontSizeConsistency(metrics)),
         spacing |-> Array(analyzeSpacingConsistency(metrics))])

ReportedFields == {"suspicious", "severityScore", "confidence", "summary", "details"}

(* C11: two analyzePDF calls on the one shared DocumentAnalyzer,           *)
(* interleaved at any of their awaits, each return the suspicious flag,    *)
(* severityScore, confidence, summary and details they return when run     *)
(* alone on the same input; no call writes the instance.                   *)
C11_CallsIndependent ==
    /\ instance = Constructed
    /\ \A c \in Calls :
          pc[c] = "done" =>
              /\ outcome[c].status = "returned"
              /\ ~outcome[c].report.threw
              /\ \A f \in ReportedFields :
                    outcome[c].report[f] = AloneReport(fontMetrics[c])[f]

C11_Witness ==
    /\ pc[1] = "done"
    /\ pc[2] = "done"
    /\ fontMetrics[1] # fontMetrics[2]
    /\ outcome[1].report.suspicious
    /\ outcome[1].report.summary.spacingIssues >= 1
    /\ ~outcome[2].report.suspicious
    /\ fontMetrics[2] # <<>>

===========================================================================
